---- MODULE Spec2Model ----
(***************************************************************************)
(* The job-submission scripts of opendatacube/radar as one state machine.  *)
(* One run of one script: the catalog result is held in fileURLs, scene    *)
(* pairs are searched (coherence scripts), units with an existing output   *)
(* are skipped, the remaining units are split into jobs, and list-files,   *)
(* the manifest (.jobs file) and the submission commands are produced.     *)
(*                                                                         *)
(* Scripts:                                                                *)
(*   "backsc"        src/code_backscatter/backsc_proc_qsub.py              *)
(*   "intcoh"        src/code_IntCoherence/intcoh_proc_qsub.py             *)
(*   "NCI_backsc"    src/SAR_ARD_code_NCI/backsc_proc_qsub.py              *)
(*   "CHPC_dualpol"  src/SAR_ARD_code_CHPC/CHPC_dualpol_proc_qsub.py       *)
(*   "CHPC_intcoh"   src/SAR_ARD_code_CHPC/CHPC_intcoh_proc_qsub.py        *)
(***************************************************************************)
EXTENDS Integers, Sequences, FiniteSets, TLC

VARIABLES
    script,         \* which script runs
    cmdargs,        \* the parsed command line (argparse namespace)
    queried,        \* the catalog has been queried
    fileURLs,       \* the catalog result: scene storage paths, in catalog order
    existing,       \* output artifacts present in the save directory
    pc,             \* position of main()
    ind1, ind2,     \* loop counters of the pair search
    units,          \* filepaths (single scenes) or filepairs (pair lines)
    n_not_reproc,   \* units skipped because their output exists
    n_jobs,         \* computed number of jobs
    jobs_arr,       \* result of np.array_split
    ind,            \* loop counter of the list / submission loops
    listfiles,      \* list-files written, in order of writing
    manifest,       \* entries of the .jobs file written by this run
    jobsfile,       \* content of the file <jobs_basename>.jobs on disk
    shscript,       \* entries of the shell script written in VDI mode
    submitted,      \* commands handed to os.system, in order
    failed,         \* numbers of the jobs whose os.system call returned non-zero
    xml_files,      \* CHPC_intcoh_proc_qsub_tmp{ii}.xml of the working directory: the
                    \* scene each file describes, NoFile where there is no file
    xml_ImageDoc,   \* the descriptor parsed by the outer loop of the pair search
    downloaded,     \* scene archives fetched into base_data_dir by this run
    peer,           \* a second instance of the script running at the same time
    runNo,          \* number of the run, for runs one after the other
    before,         \* how the run before this one ended and what it submitted
    status,         \* "running", "ok" (return), "exit" (sys.exit(msg)), "exception"
    err             \* the message / exception of an abnormal end

runvars == << script, cmdargs, queried, fileURLs, existing, pc, ind1, ind2, units,
           n_not_reproc, n_jobs, jobs_arr, ind, listfiles, manifest,
           jobsfile, shscript, submitted, failed, xml_files, xml_ImageDoc,
           downloaded, status, err >>

vars == << runvars, peer, runNo, before >>

-----------------------------------------------------------------------------
(* Bounds of the model *)

MaxCpus == 2            \* --n_cpus ranges over 1..MaxCpus and the default
MaxPerJob == 2          \* --scenes_per_job / --pairs_per_job: 1..MaxPerJob and the default
MaxScenes == 7          \* catalog length of the single-scene scripts
MaxPairScenes == 3      \* catalog length of the coherence scripts
MaxExisting == 1        \* scenes 1..MaxExisting may have an existing output
MaxFailJob == 2         \* the submissions of jobs 1..MaxFailJob may fail
ManyCpus == 53          \* a large --n_cpus: past the range the walltime curves were fitted on

-----------------------------------------------------------------------------
(* Program constants *)

MAX_N_JOBS == 300
DEF_N_CPUS == 8
MAX_PAIRS_PER_JOB == 4
MAX_SCENES_PER_JOB == 3
DEF_SCENES_PER_JOB == 10
DEF_PAIRS_PER_JOB == 5
MaxOrbitDelta == 180
CoordPrefix == 5

Scripts == {"backsc", "intcoh", "NCI_backsc", "CHPC_dualpol", "CHPC_intcoh"}
PairScripts == {"intcoh", "CHPC_intcoh"}
CHPCScripts == {"CHPC_dualpol", "CHPC_intcoh"}
FilterScripts == {"NCI_backsc", "CHPC_dualpol"}
TwoPassScripts == {"NCI_backsc", "CHPC_dualpol", "CHPC_intcoh"}

\* MAX_TIME_PER_JOB = 5*60 (coherence), 8*60 (dual-pol), in minutes
MAX_TIME_PER_JOB(s) == IF s = "CHPC_intcoh" THEN 5 * 60 ELSE 8 * 60

\* the per-job unit limit each script divides by
MaxUnitsPerJob(s, args) ==
    CASE s = "CHPC_intcoh"  -> MAX_PAIRS_PER_JOB
      [] s = "CHPC_dualpol" -> MAX_SCENES_PER_JOB
      [] OTHER              -> args.per_job

-----------------------------------------------------------------------------
(* Arithmetic helpers *)

Min(a, b) == IF a <= b THEN a ELSE b
Max(a, b) == IF a >= b THEN a ELSE b

\* the entries of a list
Range(seq) == { seq[i] : i \in DOMAIN seq }

\* stands for a file that is not in the working directory
NoFile == 0
Abs(a) == IF a < 0 THEN -a ELSE a

\* np.ceil( float(n) / d ) for d > 0
CeilDiv(n, d) == -((-n) \div d)

\* <<q, r>> with a * n = q * d + r and 0 <= r < d, computed by doubling so that
\* no intermediate value leaves the 32-bit range (d < 2^29)
RECURSIVE MulDivMod(_, _, _)
MulDivMod(a, n, d) ==
    IF n = 0 THEN << 0, 0 >>
    ELSE LET h  == MulDivMod(a, n \div 2, d)
             r2 == 2 * h[2] + (IF n % 2 = 1 THEN a % d ELSE 0)
             q2 == 2 * h[1] + (IF n % 2 = 1 THEN a \div d ELSE 0)
         IN  << q2 + (r2 \div d), r2 % d >>

\* ceil( a * n / d ) for d > 0
CeilMulDiv(a, n, d) ==
    LET qr == MulDivMod(a, n, d) IN qr[1] + (IF qr[2] > 0 THEN 1 ELSE 0)

\* walltime_per_pair / walltime_per_scene: the fitted curve is
\*   1.35 * (k0 + k1/ncpu + k2*ncpu - k3*ncpu**2)
\* = 27 * WalltimePoly / (20000 * ncpu)   minutes, as an exact fraction
WalltimePoly(s, ncpu) ==
    IF s = "CHPC_intcoh"
    THEN 148646 - 2970 * ncpu + 1844 * ncpu * ncpu - 35 * ncpu * ncpu * ncpu
    ELSE 345577 - 17595 * ncpu + 8108 * ncpu * ncpu - 184 * ncpu * ncpu * ncpu

WalltimeNum(s, ncpu) == 27 * WalltimePoly(s, ncpu)
WalltimeDen(ncpu) == 20000 * ncpu

\* walltime_per_unit(ncpu) * k > limit (minutes)
WalltimeExceeds(s, ncpu, k, limit) ==
    LET qr == MulDivMod(WalltimeNum(s, ncpu), k, WalltimeDen(ncpu))
    IN  qr[1] > limit \/ (qr[1] = limit /\ qr[2] > 0)

-----------------------------------------------------------------------------
(* Scene descriptors.  A storage path is identified by a scene number; the   *)
(* attributes main() reads from the scene's XML descriptor and the tokens it *)
(* cuts out of the file name are looked up by that number.                   *)

\* characters of "-35.123", "149.123", ...
LatA == << "-", "3", "5", ".", "1", "2", "3" >>
LatB == << "-", "3", "5", ".", "1", "2", "9" >>     \* same first 5 characters as LatA
LatE == << "-", "3", "5", ".", "2", "2", "3" >>     \* differs within the first 5
LonA == << "1", "4", "9", ".", "1", "2", "3" >>
LonB == << "1", "4", "9", ".", "1", "2", "7" >>     \* same first 5 characters as LonA
LonG == << "1", "4", "9", ".", "2", "2", "3" >>     \* differs within the first 5

Descr(lat, lon, abs, rel, ok) ==
    [ lat |-> lat, lon |-> lon, absolute |-> abs, relative |-> rel, wellformed |-> ok ]

\* scenes 1..7 are the named cases; scenes from BulkBase on are a stack of
\* acquisitions of one ground track within one repeat cycle
BulkBase == 100

SceneXml(id) ==
    CASE id = 1 -> Descr(LatA, LonA, 1000, 45, TRUE)
      [] id = 2 -> Descr(LatB, LonB, 1005, 45, TRUE)     \* pairs with 1 (delta 5)
      [] id = 3 -> Descr(LatA, LonA, 1180, 45, TRUE)     \* delta 180 to 1, 175 to 2
      [] id = 4 -> Descr(LatA, LonA, 1003, 46, TRUE)     \* other relative orbit
      [] id = 5 -> Descr(LatE, LonA, 1002, 45, TRUE)     \* other latitude prefix
      [] id = 6 -> Descr(LatA, LonG, 1001, 45, TRUE)     \* other longitude prefix
      [] id = 7 -> Descr(LatA, LonA, 1004, 45, FALSE)    \* no CENTROID element
      [] id = 8 -> Descr(LatB, LonB, 1005, 45, TRUE)     \* the acquisition of 2, delivered again
      [] OTHER  -> Descr(LatA, LonA, 5000 + (id - BulkBase), 45, TRUE)

NamedScenes == 1 .. 7

\* file-name tokens: S1A_IW_SLC__1SDV_<start>_<stop>_<orbit>_<take>_<id>.zip
\* SARurl.split("__")[1].split("_")[1]: the start time; scene 8 is a second
\* product of the acquisition of scene 2 (other product id at the end of the name)
NameStart(id) == IF id = 8 THEN 2 ELSE id
NamePol(id) == "1SDV"               \* SARurl.split("__")[1].split("_")[0]
\* os.path.basename( SARurl.split("__")[0] ): scenes of both satellites occur
NamePlat(id) == IF id % 2 = 1 THEN "S1A_IW_SLC" ELSE "S1B_IW_SLC"
NameDir(id) == "2018-01"            \* os.path.dirname( SARurl )

\* s[:5]
Prefix(s, k) == SubSeq(s, 1, Min(k, Len(s)))

\* f.replace(SOURCE_DIR, base_save_dir).replace('.zip', '.dim')
OutSingle(f) == << "dim", f >>

\* out_filename of a pair; the CHPC script prefixes the primary's directory
OutPair(s, p1, p2) ==
    [ dir   |-> IF s = "CHPC_intcoh" THEN NameDir(p1) ELSE "",
      plat  |-> NamePlat(p1),
      pol   |-> NamePol(p1),
      date1 |-> NameStart(p1),
      date2 |-> NameStart(p2) ]

\* variant of the line with the scenes in encounter order
PairLinePrimaryFirst(s, p1, p2) ==
    [ sec |-> p2, pri |-> p1, out |-> OutPair(s, p1, p2),
      text |-> << p1, p2, OutPair(s, p1, p2) >> ]

\* the line appended to filepairs: fpath2 + ' ' + fpath1 + ' ' + out_filename;
\* text holds its space-separated fields in the order written
PairLine(s, p1, p2) ==
    [ sec |-> p2, pri |-> p1, out |-> OutPair(s, p1, p2),
      text |-> << p2, p1, OutPair(s, p1, p2) >> ]

\* variant of the test that also accepts a delta of exactly MaxOrbitDelta
SuitableAtDelta(p1, p2) ==
    LET x1 == SceneXml(p1)
        x2 == SceneXml(p2)
    IN  /\ Prefix(x1.lat, CoordPrefix) = Prefix(x2.lat, CoordPrefix)
        /\ Prefix(x1.lon, CoordPrefix) = Prefix(x2.lon, CoordPrefix)
        /\ Abs(x1.absolute - x2.absolute) <= MaxOrbitDelta
        /\ x1.relative = x2.relative

\* variant of the test that wants the later scene on the later orbit
SuitableForward(p1, p2) ==
    LET x1 == SceneXml(p1)
        x2 == SceneXml(p2)
    IN  /\ Prefix(x1.lat, CoordPrefix) = Prefix(x2.lat, CoordPrefix)
        /\ Prefix(x1.lon, CoordPrefix) = Prefix(x2.lon, CoordPrefix)
        /\ x2.absolute - x1.absolute >= 0
        /\ x2.absolute - x1.absolute < MaxOrbitDelta
        /\ x1.relative = x2.relative

\* variant of the test that gives a scene one partner at most
SuitableOnce(p1, p2) ==
    LET x1 == SceneXml(p1)
        x2 == SceneXml(p2)
    IN  /\ Prefix(x1.lat, CoordPrefix) = Prefix(x2.lat, CoordPrefix)
        /\ Prefix(x1.lon, CoordPrefix) = Prefix(x2.lon, CoordPrefix)
        /\ Abs(x1.absolute - x2.absolute) < MaxOrbitDelta
        /\ x1.relative = x2.relative
        /\ \A k \in DOMAIN units : units[k].pri # p1

\* the test "found a suitable pair"
Suitable(p1, p2) ==
    LET x1 == SceneXml(p1)
        x2 == SceneXml(p2)
    IN  /\ Prefix(x1.lat, CoordPrefix) = Prefix(x2.lat, CoordPrefix)
        /\ Prefix(x1.lon, CoordPrefix) = Prefix(x2.lon, CoordPrefix)
        /\ Abs(x1.absolute - x2.absolute) < MaxOrbitDelta
        /\ x1.relative = x2.relative

-----------------------------------------------------------------------------
(* The partitioner *)

\* variant of the job count that rounds the count-based term down
NJobsFloor(s, args, n) ==
    IF s \in CHPCScripts
    THEN LET byTime  == CeilMulDiv(WalltimeNum(s, args.n_cpus), n,
                                   WalltimeDen(args.n_cpus) * MAX_TIME_PER_JOB(s))
             clamped == Min(byTime, n)
             byCount == n \div MaxUnitsPerJob(s, args)
         IN  Max(clamped, byCount)
    ELSE Max(1, n \div MaxUnitsPerJob(s, args))

\* variant of the job count without the units-per-job term
NJobsByTimeOnly(s, args, n) ==
    IF s \in CHPCScripts
    THEN Max(1, Min(CeilMulDiv(WalltimeNum(s, args.n_cpus), n,
                               WalltimeDen(args.n_cpus) * MAX_TIME_PER_JOB(s)), n))
    ELSE 1

\* variant of the job count with one job to spare
NJobsPlusOne(s, args, n) ==
    IF s \in CHPCScripts
    THEN 1 + Max(Min(CeilMulDiv(WalltimeNum(s, args.n_cpus), n,
                                WalltimeDen(args.n_cpus) * MAX_TIME_PER_JOB(s)), n),
                 CeilDiv(n, MaxUnitsPerJob(s, args)))
    ELSE 1 + CeilDiv(n, MaxUnitsPerJob(s, args))

\* the job count main() computes for n units
NJobs(s, args, n) ==
    IF s \in CHPCScripts
    THEN LET byTime  == CeilMulDiv(WalltimeNum(s, args.n_cpus), n,
                                   WalltimeDen(args.n_cpus) * MAX_TIME_PER_JOB(s))
             clamped == Min(byTime, n)
             byCount == CeilDiv(n, MaxUnitsPerJob(s, args))
         IN  Max(clamped, byCount)
    ELSE CeilDiv(n, MaxUnitsPerJob(s, args))

\* np.array_split(ary, k) for k >= 1: the first (n mod k) sections hold
\* n div k + 1 elements, the others n div k
\* variants of the section boundaries used to probe the partition properties
SectionStartNoExtras(n, k, i) == (i - 1) * (n \div k)
SectionStartTail(n, k, i) == IF i = k + 1 THEN n ELSE (i - 1) * (n \div k)

SectionStart(n, k, i) == (i - 1) * (n \div k) + Min(i - 1, n % k)

ArraySplit(ary, k) ==
    LET n == Len(ary)
    IN  [ i \in 1 .. k |->
            SubSeq(ary, SectionStart(n, k, i) + 1, SectionStart(n, k, i + 1)) ]

\* variant of the ceiling test that already rejects MAX_N_JOBS jobs
TooManyJobsAtLimit(s, args, k) ==
    /\ k >= MAX_N_JOBS
    /\ ~(s = "NCI_backsc" /\ args.VDI_jobs)

\* "Error: Too many ... jobs for this query."
TooManyJobs(s, args, k) ==
    /\ k > MAX_N_JOBS
    /\ ~(s = "NCI_backsc" /\ args.VDI_jobs)

-----------------------------------------------------------------------------
(* Inputs of a run *)

BOOL == {TRUE, FALSE}

\* --n_cpus is any int the user types (type=int, no range test)
CpuChoices == (1 .. MaxCpus) \cup {DEF_N_CPUS, ManyCpus}

PerJobChoices(s) ==
    (1 .. MaxPerJob) \cup {IF s = "intcoh" THEN DEF_PAIRS_PER_JOB ELSE DEF_SCENES_PER_JOB}

\* the options main() wants defined: "Non-optional parameter." in the help
RequiredArgs(s) ==
    {"startdate", "enddate", "bbox"}
    \cup (IF s \in CHPCScripts THEN {"base_save_dir", "base_data_dir", "gpt_exec"} ELSE {})

\* variant of the test that looks at the dates only
MissingRequiredDatesOnly(s, args) == args.undefined \cap {"startdate", "enddate"} # {}

\* "if cmdargs.startdate is None or cmdargs.enddate is None or ..."
MissingRequired(s, args) == args.undefined \cap RequiredArgs(s) # {}

\* the options each script's parser defines; undefined holds the required
\* options left out of the command line; an option a script does not
\* define keeps the value that leaves it without effect
ArgChoices(s) ==
    [ n_cpus             : IF s \in CHPCScripts THEN CpuChoices ELSE {DEF_N_CPUS},
      per_job            : IF s \in CHPCScripts THEN {0} ELSE PerJobChoices(s),
      reprocess_existing : IF s \in {"backsc", "intcoh"} THEN {TRUE} ELSE BOOL,
      submit_no_jobs     : IF s \in {"backsc", "intcoh"} THEN {FALSE} ELSE BOOL,
      VDI_jobs           : IF s = "NCI_backsc" THEN BOOL ELSE {FALSE},
      undefined          : { {} } \cup { {a} : a \in RequiredArgs(s) } ]

\* single-scene catalogs list scenes in an order that is not the sorted one
CatalogOrder(i) == IF i % 2 = 1 THEN i + 1 ELSE i - 1
SingleCatalog(n) == [ i \in 1 .. n |-> CatalogOrder(i) ]
BulkCatalog(n) == [ i \in 1 .. n |-> BulkBase + i ]

RECURSIVE SeqsUpTo(_, _)
SeqsUpTo(S, n) ==
    IF n = 0 THEN { << >> }
    ELSE LET shorter == SeqsUpTo(S, n - 1)
         IN  shorter \cup { Append(q, x) : q \in { r \in shorter : Len(r) = n - 1 }, x \in S }

\* catalogs long enough to reach the job-count ceiling, for the argument
\* values under which the ceiling is reached
LargeCatalogs(s, args) ==
    CASE s \in {"backsc", "NCI_backsc"} /\ args.per_job = 1 ->
            { SingleCatalog(n) : n \in {MAX_N_JOBS, MAX_N_JOBS + 1, MAX_N_JOBS + 50} }
      [] s = "CHPC_dualpol" /\ args.n_cpus = 1 ->
            { SingleCatalog(n) : n \in {MAX_N_JOBS + 17, MAX_N_JOBS + 18} }
      [] s = "intcoh" /\ args.per_job = 1 ->
            { BulkCatalog(n) : n \in {25, 26} }
      [] s = "CHPC_intcoh" /\ args.n_cpus = 1 ->
            { BulkCatalog(31) }
      [] OTHER -> {}

SmallCatalogs(s) ==
    IF s \in PairScripts
    THEN SeqsUpTo(NamedScenes, MaxPairScenes)
         \cup { BulkCatalog(n) : n \in 2 .. MaxPairScenes + 1 }
         \cup { << 1, 2, 8 >>, << 2, 8 >> }
    ELSE { SingleCatalog(n) : n \in 0 .. MaxScenes }

\* outputs that may already exist in the save directory
ExistingChoices(s) ==
    CASE s \in FilterScripts -> SUBSET { OutSingle(f) : f \in 1 .. MaxExisting }
      [] s = "CHPC_intcoh"   -> SUBSET { OutPair(s, f, f + 1) : f \in 1 .. MaxExisting }
      [] OTHER               -> { {} }

\* the .jobs file an earlier run with the same --jobs_basename has left
EarlierRun ==
    << [ kind |-> "header", run |-> "earlier" ], [ kind |-> "job", run |-> "earlier" ] >>

\* what is at the path of the .jobs file when the run starts
PriorJobsFiles(s, args) ==
    IF s \in TwoPassScripts /\ ~args.VDI_jobs THEN { << >>, EarlierRun } ELSE { << >> }

\* a command line with a required option left out, the others at their
\* defaults, against a catalog that holds two scenes
IncompleteCommandLine(s, args, catalog) ==
    /\ args.undefined # {}
    /\ args.n_cpus = DEF_N_CPUS
    /\ args.per_job \notin 1 .. MaxPerJob
    /\ args.reprocess_existing
    /\ ~args.submit_no_jobs
    /\ ~args.VDI_jobs
    /\ catalog = IF s \in PairScripts THEN BulkCatalog(2) ELSE SingleCatalog(2)

\* no second instance
NoPeer == [ pc |-> "none", fileURLs |-> << >>, units |-> << >>, submitted |-> << >> ]

\* no run before this one
NoRun == [ ended |-> "none", kept |-> {}, accepted |-> {} ]

\* fileURLs is what the catalog holds for the query; main() gets to see it
\* when it has queried
InitRun ==
    /\ script \in Scripts
    /\ cmdargs \in ArgChoices(script)
    /\ queried = FALSE
    /\ \/ /\ cmdargs.undefined = {}
          /\ fileURLs \in SmallCatalogs(script)
          /\ existing \in ExistingChoices(script)
       \/ /\ cmdargs.undefined = {}
          /\ fileURLs \in LargeCatalogs(script, cmdargs)
          /\ ~cmdargs.reprocess_existing \/ script \in {"backsc", "intcoh"}
          /\ existing = {}
       \/ /\ IncompleteCommandLine(script, cmdargs, fileURLs)
          /\ existing = {}
    /\ pc = "check_args"
    /\ ind1 = 1
    /\ ind2 = 1
    /\ units = << >>
    /\ n_not_reproc = 0
    /\ n_jobs = 0
    /\ jobs_arr = << >>
    /\ ind = 0
    /\ listfiles = << >>
    /\ manifest = << >>
    /\ jobsfile \in (IF cmdargs.undefined = {} THEN PriorJobsFiles(script, cmdargs)
                                               ELSE { << >> })
    /\ shscript = << >>
    /\ submitted = << >>
    /\ failed = {}
    /\ xml_files = << >>
    /\ xml_ImageDoc = NoFile
    /\ downloaded = {}
    /\ status = "running"
    /\ err = ""

\* one run, alone
Init ==
    /\ InitRun
    /\ peer = NoPeer
    /\ runNo = 1
    /\ before = NoRun

-----------------------------------------------------------------------------
(* Temporary descriptor files of the CHPC coherence script *)

\* the numbers ii of the files CHPC_intcoh_proc_qsub_tmp{ii}.xml of this run
\* that are not in the working directory
MissingXml(disk, urls) ==
    { i \in 1..Len(urls) : i > Len(disk) \/ disk[i] = NoFile }

\* "for ii,furl in enumerate(fileURLs): urlretrieve(xurl, xml_f)": file ii
\* holds the descriptor of scene ii of the list, whatever it held before;
\* files of a higher number are left alone
DownloadXml(disk, urls) ==
    [ i \in 1..Max(Len(disk), Len(urls)) |->
        IF i <= Len(urls) THEN urls[i] ELSE disk[i] ]

\* "for ff in xml_files: os.remove(ff)": the files are removed in order, up
\* to the first one that is missing (os.remove raises FileNotFoundError)
RemoveXml(disk, urls) ==
    [ i \in 1..Len(disk) |->
        IF i <= Len(urls) /\ \A m \in MissingXml(disk, urls) : i < m
        THEN NoFile ELSE disk[i] ]

\* the descriptor read for the scene at position i: the CHPC script parses
\* xml_files[i] from the working directory, the plain script reads the
\* descriptor stored next to the archive
Descriptor(s, disk, urls, i) ==
    IF s = "CHPC_intcoh"
    THEN IF i \in MissingXml(disk, urls) THEN NoFile ELSE disk[i]
    ELSE urls[i]

-----------------------------------------------------------------------------
(* Ways main() ends *)

\* return from main()
Return ==
    /\ pc' = "done"
    /\ status' = "ok"
    /\ err' = ""

\* sys.exit(msg): message on stderr, exit status 1
SysExit(msg) ==
    /\ pc' = "done"
    /\ status' = "exit"
    /\ err' = msg

\* an exception nobody catches: traceback, exit status 1
Raise(exc) ==
    /\ pc' = "done"
    /\ status' = "exception"
    /\ err' = exc

Continue(next) ==
    /\ pc' = next
    /\ UNCHANGED << status, err >>

-----------------------------------------------------------------------------
(* Option check and catalog query *)

\* after parse_args(): without the required options main() ends with
\* sys.exit("... must be defined."); otherwise it queries the catalog, page
\* by page, and keeps the storage paths
CheckArgs ==
    /\ pc = "check_args"
    /\ IF MissingRequired(script, cmdargs)
       THEN /\ SysExit("Input arguments must be defined.")
            /\ UNCHANGED << queried, units, xml_files >>
       ELSE /\ queried' = TRUE
            /\ units' = IF script = "backsc" THEN fileURLs ELSE << >>
            /\ xml_files' = IF script = "CHPC_intcoh"
                             THEN DownloadXml(xml_files, fileURLs)
                             ELSE xml_files
            /\ Continue(CASE script \in PairScripts   -> "pair_outer"
                           [] script \in FilterScripts -> "filter"
                           [] OTHER                    -> "partition")
    /\ UNCHANGED << script, cmdargs, fileURLs, existing, ind1, ind2,
                    n_not_reproc, n_jobs, jobs_arr, ind, listfiles, manifest,
                    jobsfile, shscript, submitted, failed >>
    /\ UNCHANGED << xml_ImageDoc, downloaded >>
    /\ UNCHANGED << peer, runNo, before >>

-----------------------------------------------------------------------------
(* Idempotency filter of the single-scene scripts *)

\* os.path.isfile(out)
IsFile(out) == out \in existing

\* variant of the existence test with the sense inverted: keeps the scenes
\* that have an output
NotProcessedInverted(f) == IsFile(OutSingle(f))

\* the units of the jobs of this run that the scheduler has accepted
AcceptedUnits ==
    UNION { Range(jobs_arr[c.list]) :
              c \in { d \in Range(submitted) : d.list \notin failed } }

\* the units of the jobs the second instance has submitted
PeerUnits == UNION { Range(peer.submitted[i]) : i \in DOMAIN peer.submitted }

\* variant with a lock: a scene that a job of either instance holds is left out
NotProcessedNorTaken(f) ==
    /\ ~IsFile(OutSingle(f))
    /\ f \notin AcceptedUnits \cup PeerUnits

\* [f for f in filepaths if not os.path.isfile(<output of f>)]
NotProcessed(f) == ~IsFile(OutSingle(f))

FilterSingle(paths, reprocess) ==
    IF reprocess THEN paths ELSE SelectSeq(paths, NotProcessed)

\* "if needed, exclude files already done" ... "Found no (new) scene to process."
FilterExisting ==
    /\ pc = "filter"
    /\ script \in FilterScripts
    /\ LET kept == FilterSingle(fileURLs, cmdargs.reprocess_existing)
       IN  /\ units' = kept
           /\ n_not_reproc' = Len(fileURLs) - Len(kept)
           /\ IF Len(kept) = 0
              THEN Return /\ UNCHANGED downloaded
              ELSE /\ Continue("partition")
                   /\ downloaded' = IF script = "CHPC_dualpol"
                                      THEN downloaded \cup Range(kept)
                                      ELSE downloaded
    /\ UNCHANGED << script, cmdargs, queried, fileURLs, existing, ind1, ind2, n_jobs,
                    jobs_arr, ind, listfiles, manifest, jobsfile, shscript, submitted, failed >>
    /\ UNCHANGED << xml_files, xml_ImageDoc >>
    /\ UNCHANGED << peer, runNo, before >>

-----------------------------------------------------------------------------
(* Pair search of the coherence scripts *)

\* variant without the test for an existing output
KeepPairAlways(s, args, p1, p2) == TRUE

\* the pair (p1, p2) is kept: the plain script keeps every suitable pair, the
\* CHPC script only those without an output file, unless --reprocess_existing
KeepPair(s, args, p1, p2) ==
    \/ s = "intcoh"
    \/ ~IsFile(OutPair(s, p1, p2))
    \/ args.reprocess_existing

\* one pass of "for ind1 in range(n_scenes)" up to its inner loop: the scene's
\* descriptor is parsed and its centroid and orbit numbers are read
PairOuter ==
    /\ pc = "pair_outer"
    /\ script \in PairScripts
    /\ IF ind1 > Len(fileURLs)
       THEN Continue("pairs_done") /\ UNCHANGED << ind2, xml_ImageDoc >>
       ELSE LET doc == Descriptor(script, xml_files, fileURLs, ind1)
            IN  IF doc = NoFile
                THEN Raise("FileNotFoundError") /\ UNCHANGED << ind2, xml_ImageDoc >>
                ELSE IF ~SceneXml(doc).wellformed
                     THEN Raise("IndexError") /\ UNCHANGED << ind2, xml_ImageDoc >>
                     ELSE /\ Continue("pair_inner")
                          /\ ind2' = ind1 + 1
                          /\ xml_ImageDoc' = doc
    /\ UNCHANGED << script, cmdargs, queried, fileURLs, existing, ind1, units,
                    n_not_reproc, n_jobs, jobs_arr, ind, listfiles, manifest, jobsfile,
                    shscript, submitted, failed >>
    /\ UNCHANGED << xml_files, downloaded >>
    /\ UNCHANGED << peer, runNo, before >>

\* one pass of "for ind2 in range(ind1+1, n_scenes)"
PairInner ==
    /\ pc = "pair_inner"
    /\ script \in PairScripts
    /\ IF ind2 > Len(fileURLs)
       THEN /\ Continue("pair_outer")
            /\ ind1' = ind1 + 1
            /\ UNCHANGED << ind2, units, n_not_reproc, downloaded >>
       ELSE LET p1 == fileURLs[ind1]
                p2 == fileURLs[ind2]
                doc2 == Descriptor(script, xml_files, fileURLs, ind2)
            IN  IF doc2 = NoFile \/ ~SceneXml(doc2).wellformed
                THEN /\ Raise(IF doc2 = NoFile THEN "FileNotFoundError"
                                               ELSE "IndexError")
                     /\ UNCHANGED << ind1, ind2, units, n_not_reproc, downloaded >>
                ELSE /\ Continue("pair_inner")
                     /\ ind2' = ind2 + 1
                     /\ UNCHANGED ind1
                     /\ IF ~Suitable(xml_ImageDoc, doc2)
                        THEN UNCHANGED << units, n_not_reproc, downloaded >>
                        ELSE IF KeepPair(script, cmdargs, p1, p2)
                             THEN /\ units' = Append(units, PairLine(script, p1, p2))
                                  /\ downloaded' = IF script = "CHPC_intcoh"
                                                     THEN downloaded \cup {p1, p2}
                                                     ELSE downloaded
                                  /\ UNCHANGED n_not_reproc
                             ELSE /\ n_not_reproc' = n_not_reproc + 1
                                  /\ UNCHANGED << units, downloaded >>
    /\ UNCHANGED << script, cmdargs, queried, fileURLs, existing, n_jobs, jobs_arr, ind,
                    listfiles, manifest, jobsfile, shscript, submitted, failed >>
    /\ UNCHANGED << xml_files, xml_ImageDoc >>
    /\ UNCHANGED << peer, runNo, before >>

\* after the loops.  intcoh: "if n_pairs==0: sys.exit(...)".  CHPC_intcoh: the
\* message about skipped pairs formats n_pairs, which is assigned only on the
\* following line, so it raises whenever n_not_reproc != 0
PairsDone ==
    /\ pc = "pairs_done"
    /\ script \in PairScripts
    /\ IF script = "intcoh"
       THEN /\ IF Len(units) = 0 THEN SysExit("No pairs to process.")
                                 ELSE Continue("partition")
            /\ UNCHANGED xml_files
       ELSE /\ xml_files' = RemoveXml(xml_files, fileURLs)
            /\ IF MissingXml(xml_files, fileURLs) # {}
               THEN Raise("FileNotFoundError")
               ELSE IF n_not_reproc # 0 THEN Raise("UnboundLocalError")
                    ELSE IF Len(units) = 0 THEN Return
                         ELSE Continue("partition")
    /\ UNCHANGED << script, cmdargs, queried, fileURLs, existing, ind1, ind2, units,
                    n_not_reproc, n_jobs, jobs_arr, ind, listfiles, manifest, jobsfile,
                    shscript, submitted, failed >>
    /\ UNCHANGED << xml_ImageDoc, downloaded >>
    /\ UNCHANGED << peer, runNo, before >>

-----------------------------------------------------------------------------
(* Partition into jobs *)

\* n_jobs = ...; if n_jobs > MAX_N_JOBS: sys.exit(...); np.array_split(...)
Partition ==
    /\ pc = "partition"
    /\ LET k == NJobs(script, cmdargs, Len(units))
       IN  /\ n_jobs' = k
           /\ IF TooManyJobs(script, cmdargs, k)
              THEN SysExit("Too many jobs for this query.") /\ UNCHANGED jobs_arr
              ELSE IF k <= 0
                   THEN Raise("ValueError") /\ UNCHANGED jobs_arr
                   ELSE /\ jobs_arr' = ArraySplit(units, k)
                        /\ Continue(IF script \in TwoPassScripts
                                    THEN "write_lists" ELSE "write_and_submit")
    /\ ind' = 0
    /\ UNCHANGED << script, cmdargs, queried, fileURLs, existing, ind1, ind2, units,
                    n_not_reproc, listfiles, manifest, jobsfile, shscript, submitted, failed >>
    /\ UNCHANGED << xml_files, xml_ImageDoc, downloaded >>
    /\ UNCHANGED << peer, runNo, before >>

-----------------------------------------------------------------------------
(* List-files, manifest and submission *)

\* WALLTIME_PER_SCENE / WALLTIME_PER_PAIR of the scripts with a fixed estimate
WALLTIME_PER_UNIT(s) ==
    CASE s = "backsc"     -> 90
      [] s = "intcoh"     -> 260
      [] s = "NCI_backsc" -> 45
      [] OTHER            -> 0

\* round( a * n / d ), Python 3: ties go to the even neighbour
RoundMulDiv(a, n, d) ==
    LET qr == MulDivMod(a, n, d)
    IN  CASE 2 * qr[2] < d -> qr[1]
          [] 2 * qr[2] > d -> qr[1] + 1
          [] OTHER         -> IF qr[1] % 2 = 0 THEN qr[1] ELSE qr[1] + 1

\* variant that takes the estimate of all units of the run for each job
JobWalltimeOfAll(s, args, k) ==
    IF s \in CHPCScripts
    THEN RoundMulDiv(WalltimeNum(s, args.n_cpus), Len(units), WalltimeDen(args.n_cpus))
    ELSE WALLTIME_PER_UNIT(s) * Len(units)

\* the walltime put into the command of a job of k units
JobWalltime(s, args, k) ==
    IF s \in CHPCScripts
    THEN RoundMulDiv(WalltimeNum(s, args.n_cpus), k, WalltimeDen(args.n_cpus))
    ELSE WALLTIME_PER_UNIT(s) * k

\* cmd = 'qsub ...' / 'sbatch ...' of job nr. i
SubmitCmd(s, args, i, job) ==
    [ walltime |-> JobWalltime(s, args, Len(job)),
      ncpus    |-> args.n_cpus,
      out      |-> i,
      err      |-> i,
      list     |-> i ]

\* with open(slist_name,'w') as ln: ln.writelines(...)
ListFile(i, job) == [ name |-> i, lines |-> job ]

\* variant that leaves the loop after the first list
ListsDoneEarly(i, n) == TRUE

\* "for job in jobs_arr" of "write lists" ends after the last job
ListsDone(i, n) == i = n

\* "write lists": one pass of the loop of the scripts that write all lists first
WriteList ==
    /\ pc = "write_lists"
    /\ script \in TwoPassScripts
    /\ ind' = ind + 1
    /\ listfiles' = Append(listfiles, ListFile(ind + 1, jobs_arr[ind + 1]))
    /\ Continue(IF ListsDone(ind + 1, Len(jobs_arr)) THEN "header" ELSE "write_lists")
    /\ UNCHANGED << script, cmdargs, queried, fileURLs, existing, ind1, ind2, units,
                    n_not_reproc, n_jobs, jobs_arr, manifest, jobsfile, shscript, submitted, failed >>
    /\ UNCHANGED << xml_files, xml_ImageDoc, downloaded >>
    /\ UNCHANGED << peer, runNo, before >>

\* the shell script of VDI mode, written in one go: header, then one entry per job
VdiScript(jobs, k) ==
    << [ kind |-> "header" ] >> \o
    [ i \in 1 .. Len(jobs) |-> [ kind |-> "job", nr |-> i, of |-> k, list |-> i, log |-> i ] ]

\* what the header of the .jobs file reports: the time, the input parameters
\* and the current directory
HeaderFields(s) ==
    {"time", "startdate", "enddate", "bbox", "base_save_dir", "cwd"}
    \cup (IF s \in CHPCScripts THEN {"base_data_dir", "gpt_exec"} ELSE {})

ManifestHeader(s) == [ kind |-> "header", fields |-> HeaderFields(s) ]

\* "create job scripts": VDI mode writes the shell script and is done; otherwise
\* the .jobs file is opened with 'w' and its header written
WriteHeader ==
    /\ pc = "header"
    /\ script \in TwoPassScripts
    /\ ind' = 0
    /\ IF script = "NCI_backsc" /\ cmdargs.VDI_jobs
       THEN /\ shscript' = VdiScript(jobs_arr, n_jobs)
            /\ UNCHANGED << manifest, jobsfile >>
            /\ Return
       ELSE /\ manifest' = << ManifestHeader(script) >>
            /\ jobsfile' = << ManifestHeader(script) >>
            /\ UNCHANGED shscript
            /\ Continue("submit")
    /\ UNCHANGED << script, cmdargs, queried, fileURLs, existing, ind1, ind2, units,
                    n_not_reproc, n_jobs, jobs_arr, listfiles, submitted, failed >>
    /\ UNCHANGED << xml_files, xml_ImageDoc, downloaded >>
    /\ UNCHANGED << peer, runNo, before >>

\* variant that runs the command whatever the options say
ExecutesAlways(args) == TRUE

\* variant of the loop that stops at the first failed submission
LoopEndsOnFailure(rc, i, n) == i = n \/ rc # 0

\* the exit status os.system may return for job nr. i: 0, or non-zero when
\* the scheduler rejects the command
ExitCodes(run, i) == IF run /\ i <= MaxFailJob THEN {0, 1} ELSE {0}

\* "for job in jobs_arr" ends after the last job; the value os.system returns
\* is not looked at
LoopEnds(rc, i, n) == i = n

\* "if not cmdargs.submit_no_jobs: os.system( cmd )"
Executes(args) == ~args.submit_no_jobs

ManifestEntry(i, k, cmd) == [ kind |-> "job", nr |-> i, of |-> k, cmd |-> cmd ]

\* one pass of the submission loop: the command is appended to the .jobs file
\* and, unless --submit_no_jobs, run with os.system
SubmitJob ==
    /\ pc = "submit"
    /\ script \in TwoPassScripts
    /\ LET i   == ind + 1
           cmd == SubmitCmd(script, cmdargs, i, jobs_arr[i])
       IN  /\ ind' = i
           /\ manifest' = Append(manifest, ManifestEntry(i, n_jobs, cmd))
           /\ jobsfile' = Append(jobsfile, ManifestEntry(i, n_jobs, cmd))
           /\ submitted' = IF Executes(cmdargs) THEN Append(submitted, cmd)
                           ELSE submitted
           /\ \E rc \in ExitCodes(Executes(cmdargs), i) :
                 /\ failed' = IF rc # 0 THEN failed \cup {i} ELSE failed
                 /\ IF LoopEnds(rc, i, Len(jobs_arr))
                    THEN Return ELSE Continue("submit")
    /\ UNCHANGED << script, cmdargs, queried, fileURLs, existing, ind1, ind2, units,
                    n_not_reproc, n_jobs, jobs_arr, listfiles, shscript >>
    /\ UNCHANGED << xml_files, xml_ImageDoc, downloaded >>
    /\ UNCHANGED << peer, runNo, before >>

\* one pass of the loop of the scripts that write a list and submit its job at
\* once; they keep no .jobs file
WriteAndSubmit ==
    /\ pc = "write_and_submit"
    /\ script \in {"backsc", "intcoh"}
    /\ LET i   == ind + 1
           cmd == SubmitCmd(script, cmdargs, i, jobs_arr[i])
       IN  /\ ind' = i
           /\ listfiles' = Append(listfiles, ListFile(i, jobs_arr[i]))
           /\ submitted' = Append(submitted, cmd)
           /\ \E rc \in ExitCodes(TRUE, i) :
                 /\ failed' = IF rc # 0 THEN failed \cup {i} ELSE failed
                 /\ IF LoopEnds(rc, i, Len(jobs_arr))
                    THEN Return ELSE Continue("write_and_submit")
    /\ UNCHANGED << script, cmdargs, queried, fileURLs, existing, ind1, ind2, units,
                    n_not_reproc, n_jobs, jobs_arr, manifest, jobsfile, shscript >>
    /\ UNCHANGED << xml_files, xml_ImageDoc, downloaded >>
    /\ UNCHANGED << peer, runNo, before >>

-----------------------------------------------------------------------------

Next ==
    \/ CheckArgs
    \/ FilterExisting
    \/ PairOuter
    \/ PairInner
    \/ PairsDone
    \/ Partition
    \/ WriteList
    \/ WriteHeader
    \/ SubmitJob
    \/ WriteAndSubmit

Spec == Init /\ [][Next]_vars

-----------------------------------------------------------------------------
(* Two instances at the same time, and one run after the other *)

MaxPeerScenes == 2      \* the second instance of the coherence script lists up to 2 scenes
MaxRuns == 2            \* runs one after the other

\* the path of the output of a unit
Output(s, u) == IF s \in PairScripts THEN u.out ELSE OutSingle(u)

\* the second instance runs the same script with the same options in the same
\* working directory, on the same output tree; the single-scene scripts are
\* given the same query, the coherence script one of its own
PeerStarts(s, urls) ==
    IF s = "CHPC_intcoh"
    THEN { [ NoPeer EXCEPT !.pc = "download", !.fileURLs = q ] :
             q \in SeqsUpTo(1 .. 3, MaxPeerScenes) \ { << >> } }
    ELSE { [ NoPeer EXCEPT !.pc = "filter", !.fileURLs = urls ] }

\* two instances of a single-scene script, both without --reprocess_existing
\* and both submitting
InitConcurrent ==
    /\ InitRun
    /\ script \in FilterScripts
    /\ cmdargs.undefined = {}
    /\ cmdargs.n_cpus = DEF_N_CPUS
    /\ ~cmdargs.reprocess_existing
    /\ ~cmdargs.submit_no_jobs
    /\ ~cmdargs.VDI_jobs
    /\ fileURLs \in SmallCatalogs(script)
    /\ jobsfile = << >>
    /\ peer \in PeerStarts(script, fileURLs)
    /\ runNo = 1
    /\ before = NoRun

\* two instances of the CHPC coherence script in one working directory
InitSharedDir ==
    /\ InitRun
    /\ script = "CHPC_intcoh"
    /\ cmdargs.undefined = {}
    /\ cmdargs.n_cpus = DEF_N_CPUS
    /\ ~cmdargs.submit_no_jobs
    /\ ~cmdargs.reprocess_existing
    /\ Len(fileURLs) <= MaxPeerScenes + 1
    /\ existing = {}
    /\ jobsfile = << >>
    /\ peer \in PeerStarts(script, fileURLs)
    /\ runNo = 1
    /\ before = NoRun

\* the second instance of a single-scene script excludes the scenes whose
\* output is there, without --reprocess_existing
PeerFilter ==
    /\ peer.pc = "filter"
    /\ LET kept == FilterSingle(peer.fileURLs, FALSE)
       IN  peer' = [ peer EXCEPT !.units = kept,
                                 !.pc = IF Len(kept) = 0 THEN "done" ELSE "submit" ]
    /\ UNCHANGED << runvars, runNo, before >>

\* the second instance splits its scenes into jobs and submits them
PeerSubmit ==
    /\ peer.pc = "submit"
    /\ LET k == NJobs(script, cmdargs, Len(peer.units))
       IN  peer' = [ peer EXCEPT
                       !.pc = "done",
                       !.submitted = IF TooManyJobs(script, cmdargs, k) \/ k <= 0
                                     THEN << >>
                                     ELSE ArraySplit(peer.units, k) ]
    /\ UNCHANGED << runvars, runNo, before >>

\* the second instance of the coherence script downloads the descriptors of
\* its scenes to CHPC_intcoh_proc_qsub_tmp{ii}.xml
PeerDownloadXml ==
    /\ peer.pc = "download"
    /\ xml_files' = DownloadXml(xml_files, peer.fileURLs)
    /\ peer' = [ peer EXCEPT !.pc = "remove" ]
    /\ UNCHANGED << script, cmdargs, queried, fileURLs, existing, pc, ind1,
                    ind2, units, n_not_reproc, n_jobs, jobs_arr, ind, listfiles,
                    manifest, jobsfile, shscript, submitted, failed,
                    xml_ImageDoc, downloaded, status, err, runNo, before >>

\* the second instance of the coherence script is through its pair search
\* and removes the files
PeerRemoveXml ==
    /\ peer.pc = "remove"
    /\ xml_files' = RemoveXml(xml_files, peer.fileURLs)
    /\ peer' = [ peer EXCEPT !.pc = "done" ]
    /\ UNCHANGED << script, cmdargs, queried, fileURLs, existing, pc, ind1,
                    ind2, units, n_not_reproc, n_jobs, jobs_arr, ind, listfiles,
                    manifest, jobsfile, shscript, submitted, failed,
                    xml_ImageDoc, downloaded, status, err, runNo, before >>

\* a job the scheduler has accepted, of either instance, writes the output of
\* one of its units
JobFinishes ==
    /\ \E u \in AcceptedUnits \cup PeerUnits :
          /\ Output(script, u) \notin existing
          /\ existing' = existing \cup { Output(script, u) }
    /\ UNCHANGED << script, cmdargs, queried, fileURLs, pc, ind1, ind2, units,
                    n_not_reproc, n_jobs, jobs_arr, ind, listfiles, manifest,
                    jobsfile, shscript, submitted, failed, xml_files,
                    xml_ImageDoc, downloaded, status, err, peer, runNo, before >>

NextConcurrent ==
    \/ CheckArgs
    \/ FilterExisting
    \/ Partition
    \/ WriteList
    \/ WriteHeader
    \/ SubmitJob
    \/ PeerFilter
    \/ PeerSubmit
    \/ JobFinishes

SpecConcurrent == InitConcurrent /\ [][NextConcurrent]_vars

NextSharedDir ==
    \/ CheckArgs
    \/ PairOuter
    \/ PairInner
    \/ PairsDone
    \/ Partition
    \/ WriteList
    \/ WriteHeader
    \/ SubmitJob
    \/ PeerDownloadXml
    \/ PeerRemoveXml

SpecSharedDir == InitSharedDir /\ [][NextSharedDir]_vars

\* the first of the runs that follow one another
InitSerial ==
    /\ Init
    /\ script \in TwoPassScripts
    /\ cmdargs.undefined = {}
    /\ cmdargs.n_cpus = DEF_N_CPUS
    /\ fileURLs \in SmallCatalogs(script)
    /\ jobsfile = << >>

\* the options of the next run: the same query and sizes, any of the flags
SameQuery(s, args) ==
    { a \in ArgChoices(s) : /\ a.undefined = {}
                            /\ a.n_cpus = args.n_cpus
                            /\ a.per_job = args.per_job }

\* the run is over, every job the scheduler accepted writes the outputs of
\* its units, and the script is started again on the same catalog result
NextRun ==
    /\ pc = "done"
    /\ runNo < MaxRuns
    /\ runNo' = runNo + 1
    /\ before' = [ ended |-> status, kept |-> Range(units), accepted |-> AcceptedUnits ]
    /\ existing' = existing \cup { Output(script, u) : u \in AcceptedUnits }
    /\ cmdargs' \in SameQuery(script, cmdargs)
    /\ queried' = FALSE
    /\ pc' = "check_args"
    /\ ind1' = 1
    /\ ind2' = 1
    /\ units' = << >>
    /\ n_not_reproc' = 0
    /\ n_jobs' = 0
    /\ jobs_arr' = << >>
    /\ ind' = 0
    /\ listfiles' = << >>
    /\ manifest' = << >>
    /\ shscript' = << >>
    /\ submitted' = << >>
    /\ failed' = {}
    /\ xml_ImageDoc' = NoFile
    /\ downloaded' = {}
    /\ status' = "running"
    /\ err' = ""
    /\ UNCHANGED << script, fileURLs, jobsfile, xml_files, peer >>

NextSerial ==
    \/ CheckArgs
    \/ FilterExisting
    \/ PairOuter
    \/ PairInner
    \/ PairsDone
    \/ Partition
    \/ WriteList
    \/ WriteHeader
    \/ SubmitJob
    \/ NextRun

SpecSerial == InitSerial /\ [][NextSerial]_vars

-----------------------------------------------------------------------------
(* Properties *)

RECURSIVE Concat(_, _, _)
\* the sections lo..hi of jobs, one after the other
Concat(jobs, lo, hi) ==
    IF lo > hi THEN << >>
    ELSE IF lo = hi THEN jobs[lo]
    ELSE LET mid == (lo + hi) \div 2
         IN  Concat(jobs, lo, mid) \o Concat(jobs, mid + 1, hi)

NothingWritten ==
    /\ listfiles = << >>
    /\ manifest = << >>
    /\ shscript = << >>
    /\ submitted = << >>

\* the partitioner has accepted the job count and split the units
Partitioned == Len(jobs_arr) > 0

JobSizes == { Len(jobs_arr[i]) : i \in DOMAIN jobs_arr }

\* C1: whenever the units have been split into jobs, the jobs concatenated in
\* job order are exactly the unit sequence: nothing lost, duplicated, reordered.
C1_ConcatIsInput ==
    Partitioned => Concat(jobs_arr, 1, Len(jobs_arr)) = units

C1_Witness ==
    /\ Partitioned
    /\ Len(jobs_arr) = 3
    /\ Len(units) = 7
    /\ pc = "done"

\* C8: the sizes of any two jobs of one partition differ by at most one unit.
C8_SizesDifferByAtMostOne ==
    \A a \in JobSizes : \A b \in JobSizes : a - b <= 1

C8_Witness ==
    /\ Partitioned
    /\ JobSizes = {2, 3}
    /\ pc = "done"

-----------------------------------------------------------------------------

\* the job count has been computed (it is at least 1 for 1 or more units)
Counted == n_jobs # 0

\* k jobs are enough for n units: enough for the per-job unit limit, and
\* either one job per unit or k walltime ceilings cover the total estimate
EnoughJobs(s, args, n, k) ==
    /\ k * MaxUnitsPerJob(s, args) >= n
    /\ \/ s \notin CHPCScripts
       \/ k >= n
       \/ ~WalltimeExceeds(s, args.n_cpus, n, k * MAX_TIME_PER_JOB(s))

\* C9: for n >= 1 units the job count is
\*   max( min( ceil(total walltime / ceiling), n ), ceil(n / units per job) ),
\* that is, the least count that is enough in the sense above; the units are
\* split into that many jobs; and 7 scenes with 3 scenes per job and a ceiling
\* that does not bind (dual-pol, 8 CPUs) give the jobs of 3, 2 and 2 scenes.
C9_JobCount ==
    /\ (Counted /\ Len(units) >= 1) =>
          /\ EnoughJobs(script, cmdargs, Len(units), n_jobs)
          /\ ~EnoughJobs(script, cmdargs, Len(units), n_jobs - 1)
    /\ Partitioned => Len(jobs_arr) = n_jobs
    /\ (/\ Partitioned
        /\ script = "CHPC_dualpol"
        /\ cmdargs.n_cpus = DEF_N_CPUS
        /\ Len(units) = 7) =>
          jobs_arr = << SubSeq(units, 1, 3), SubSeq(units, 4, 5), SubSeq(units, 6, 7) >>

C9_Witness ==
    /\ script = "CHPC_dualpol"
    /\ cmdargs.n_cpus = DEF_N_CPUS
    /\ Len(units) = 7
    /\ n_jobs = 3
    /\ Len(listfiles) = 3

\* C2 (as claimed): in every script and mode a job count above MAX_N_JOBS ends
\* the run with the fatal error before anything is written or submitted.
C2_CeilingInEveryMode ==
    n_jobs > MAX_N_JOBS => (status = "exit" /\ NothingWritten)

VdiMode == script = "NCI_backsc" /\ cmdargs.VDI_jobs

\* C2 (amended): outside the VDI mode of the NCI backscatter script a job
\* count above MAX_N_JOBS ends the run with the fatal error before anything is
\* written or submitted; in VDI mode no ceiling applies and nothing is ever
\* submitted; a count of exactly MAX_N_JOBS is accepted.
C2_CeilingExceptVdi ==
    /\ (n_jobs > MAX_N_JOBS /\ ~VdiMode) =>
          /\ status = "exit"
          /\ err = "Too many jobs for this query."
          /\ pc = "done"
          /\ ~Partitioned
          /\ NothingWritten
    /\ (n_jobs > MAX_N_JOBS /\ VdiMode) =>
          /\ status # "exit"
          /\ Partitioned
          /\ submitted = << >>
    /\ n_jobs = MAX_N_JOBS =>
          /\ status # "exit"
          /\ Len(jobs_arr) = MAX_N_JOBS

C2_Witness ==
    /\ n_jobs = MAX_N_JOBS + 50
    /\ ~VdiMode
    /\ status = "exit"

\* C3 (as claimed): the estimated walltime of every emitted job, the per-unit
\* estimate at the chosen CPU count times the job's unit count, is at most
\* MAX_TIME_PER_JOB.
C3_WalltimeWithinCeiling ==
    script \in CHPCScripts =>
        \A i \in DOMAIN listfiles :
            ~WalltimeExceeds(script, cmdargs.n_cpus, Len(listfiles[i].lines),
                             MAX_TIME_PER_JOB(script))

\* the run found nothing to process: no scene, no pair, or every unit skipped
NothingToProcess ==
    /\ queried
    /\ pc = "done"
    /\ Len(units) = 0
    /\ \A i \in DOMAIN fileURLs : SceneXml(fileURLs[i]).wellformed

\* C4 (as claimed): a run with zero work units ends normally, without calling
\* the partitioner and without writing or submitting anything.
C4_NothingToProcessIsNormalEnd ==
    NothingToProcess =>
        /\ status = "ok"
        /\ ~Counted
        /\ NothingWritten

-----------------------------------------------------------------------------

\* the first k characters of two strings agree (strings shorter than k: whole)
SamePrefix(a, b, k) ==
    /\ (Len(a) < k \/ Len(b) < k) => Len(a) = Len(b)
    /\ \A c \in 1 .. k : (c <= Len(a) /\ c <= Len(b)) => a[c] = b[c]

\* the matching rule as the claim states it
Matches(p1, p2) ==
    LET x1 == SceneXml(p1)
        x2 == SceneXml(p2)
    IN  /\ SamePrefix(x1.lat, x2.lat, 5)
        /\ SamePrefix(x1.lon, x2.lon, 5)
        /\ x1.relative = x2.relative
        /\ x1.absolute - x2.absolute < 180
        /\ x2.absolute - x1.absolute < 180

\* this step compares the scenes at positions ind1 < ind2
ComparesPair ==
    /\ pc = "pair_inner"
    /\ ind2 <= Len(fileURLs)
    /\ SceneXml(fileURLs[ind2]).wellformed

\* C5: the pair search takes the scenes at positions ind1 < ind2 as a pair
\* (appends their line, or in the CHPC script counts it as already processed)
\* if and only if the first 5 characters of their latitudes and of their
\* longitudes agree, their relative orbits are equal and their absolute orbits
\* differ by less than 180; the line names the later scene, then the earlier.
C5_PairIffMatches ==
    [][ ComparesPair =>
          /\ ( Len(units') + n_not_reproc' = Len(units) + n_not_reproc + 1 )
                <=> Matches(fileURLs[ind1], fileURLs[ind2])
          /\ Len(units') + n_not_reproc' \in
                { Len(units) + n_not_reproc, Len(units) + n_not_reproc + 1 }
          /\ script = "intcoh" => n_not_reproc' = 0
          /\ Len(units') = Len(units) + 1 =>
                /\ units'[Len(units')].pri = fileURLs[ind1]
                /\ units'[Len(units')].sec = fileURLs[ind2]
                /\ SubSeq(units', 1, Len(units)) = units
          /\ Len(units') # Len(units) + 1 => units' = units
      ]_vars

\* scenes 1 and 2 (delta 5) and 2 and 3 (delta 175) are paired, 1 and 3
\* (delta exactly 180) are not
C5_Witness ==
    /\ script = "intcoh"
    /\ fileURLs = << 1, 2, 3 >>
    /\ pc = "pairs_done"
    /\ Len(units) = 2
    /\ units[1].pri = 1 /\ units[1].sec = 2
    /\ units[2].pri = 2 /\ units[2].sec = 3

\* C6 (as claimed): no pair line has one scene as primary and secondary, and
\* no two pair lines hold the same unordered pair of scenes.
C6_NoSelfPairNoDuplicate ==
    script \in PairScripts =>
        /\ \A i \in DOMAIN units : units[i].pri # units[i].sec
        /\ \A i \in DOMAIN units : \A j \in DOMAIN units :
              i < j => {units[i].pri, units[i].sec} # {units[j].pri, units[j].sec}

\* C10 (as claimed): a scene descriptor without centroid or orbit numbers does
\* not end the run; the run goes on without that scene.
C10_MalformedSceneNotFatal ==
    (\E i \in DOMAIN fileURLs : ~SceneXml(fileURLs[i]).wellformed) =>
        ~(status = "exception" /\ err = "IndexError")

-----------------------------------------------------------------------------

\* positions of the catalog whose unit the filter has to keep
KeptPositions ==
    { i \in DOMAIN fileURLs :
        cmdargs.reprocess_existing \/ OutSingle(fileURLs[i]) \notin existing }

\* us holds exactly the scenes at the kept positions, in catalog order
IsFiltered(us) ==
    /\ Len(us) = Cardinality(KeptPositions)
    /\ \A i \in KeptPositions :
          us[Cardinality({ j \in KeptPositions : j <= i })] = fileURLs[i]
    /\ cmdargs.reprocess_existing => us = fileURLs

\* C7: the filter keeps the units in their original order and drops a unit if
\* and only if --reprocess_existing is off and a file exists at the unit's
\* output path; with --reprocess_existing the output is the input.  In the
\* CHPC coherence script the filter acts on each matching pair as it is found.
C7_FilterDropsExistingOnly ==
    [][ /\ pc = "filter" => IsFiltered(units')
        /\ ( /\ ComparesPair
             /\ script = "CHPC_intcoh"
             /\ Matches(fileURLs[ind1], fileURLs[ind2]) ) =>
              LET out  == OutPair(script, fileURLs[ind1], fileURLs[ind2])
                  drop == ~cmdargs.reprocess_existing /\ out \in existing
              IN  /\ drop => units' = units
                  /\ ~drop => /\ Len(units') = Len(units) + 1
                              /\ SubSeq(units', 1, Len(units)) = units
                              /\ units'[Len(units')].out = out
      ]_vars

\* scene 1, between scenes 2 and 4 in the catalog, is dropped
C7_Witness ==
    /\ script = "NCI_backsc"
    /\ ~cmdargs.reprocess_existing
    /\ fileURLs = << 2, 1, 4 >>
    /\ existing = { OutSingle(1) }
    /\ units = << 2, 4 >>
    /\ pc = "done"

-----------------------------------------------------------------------------

\* every submission command written to the manifest or run
Commands ==
    { manifest[i].cmd : i \in { j \in DOMAIN manifest : manifest[j].kind = "job" } }
    \cup { submitted[i] : i \in DOMAIN submitted }

\* C11 (as claimed): the walltime written into every submission command is at
\* least 1 minute, for every --n_cpus the user may pass.
C11_WalltimeAtLeastOneMinute ==
    \A c \in Commands : c.walltime >= 1

\* walltime_per_unit(ncpu) * k1 <= walltime_per_unit(ncpu) * k2, compared as
\* the products the code computes (whole minutes, then the remainder)
EstimateLeq(s, ncpu, k1, k2) ==
    LET a == MulDivMod(WalltimeNum(s, ncpu), k1, WalltimeDen(ncpu))
        b == MulDivMod(WalltimeNum(s, ncpu), k2, WalltimeDen(ncpu))
    IN  a[1] < b[1] \/ (a[1] = b[1] /\ a[2] <= b[2])

\* C12 (as claimed): at the CPU count of the run the estimated walltime does
\* not decrease when a unit is added, for every unit count up to the run's own.
C12_WalltimeMonotoneInUnits ==
    (script \in CHPCScripts /\ Counted) =>
        \A k \in 0 .. Len(units) - 1 :
            EstimateLeq(script, cmdargs.n_cpus, k, k + 1)

\* C13 (as claimed): when a run that has dropped units whose output exists
\* ends normally with its manifest written, the manifest reports their count.
C13_DroppedCountInManifest ==
    (pc = "done" /\ status = "ok" /\ n_not_reproc > 0 /\ manifest # << >>) =>
        \E i \in DOMAIN manifest :
            /\ manifest[i].kind = "header"
            /\ "nproc" \in manifest[i].fields

-----------------------------------------------------------------------------

\* the run keeps a .jobs file
KeepsManifest == script \in TwoPassScripts /\ ~VdiMode

\* the job entries of the .jobs file, after its header
JobEntries == IF manifest = << >> THEN << >> ELSE Tail(manifest)

\* the run got through all its jobs
Emitted == pc = "done" /\ status = "ok" /\ Partitioned

\* C14: with --submit_no_jobs no command is ever run, while the list-files
\* and the .jobs file come out as without the option: one list-file per job
\* and one .jobs entry per job that holds the command, whose content does not
\* depend on the option.
C14_DryRunExecutesNothing ==
    cmdargs.submit_no_jobs =>
        /\ submitted = << >>
        /\ \A i \in DOMAIN listfiles : listfiles[i].lines = jobs_arr[i]
        /\ \A i \in DOMAIN JobEntries :
              /\ JobEntries[i].kind = "job"
              /\ JobEntries[i].cmd =
                    SubmitCmd(script, [cmdargs EXCEPT !.submit_no_jobs = FALSE],
                              i, jobs_arr[i])
        /\ Emitted => Len(listfiles) = Len(jobs_arr)
        /\ (Emitted /\ KeepsManifest) => Len(JobEntries) = Len(jobs_arr)

C14_Witness ==
    /\ cmdargs.submit_no_jobs
    /\ script = "CHPC_dualpol"
    /\ Emitted
    /\ Len(jobs_arr) = 3
    /\ Len(JobEntries) = 3
    /\ submitted = << >>

-----------------------------------------------------------------------------

\* the commands of the run in job order: those written to the .jobs file, or
\* for the scripts without one, those run
RunCommands ==
    IF KeepsManifest THEN [ i \in DOMAIN JobEntries |-> JobEntries[i].cmd ]
    ELSE submitted

\* w is the estimate of a job of k units: k times the fixed per-unit time, or
\* k times the fitted curve, rounded to the nearest minute
IsWalltimeOf(w, k) ==
    IF script \in CHPCScripts
    THEN LET d == w * WalltimeDen(cmdargs.n_cpus)
                    - WalltimeNum(script, cmdargs.n_cpus) * k
         IN  2 * d <= WalltimeDen(cmdargs.n_cpus) /\ -2 * d <= WalltimeDen(cmdargs.n_cpus)
    ELSE w = WALLTIME_PER_UNIT(script) * k

-----------------------------------------------------------------------------

\* q1 is the beginning of q2
IsPrefix(q1, q2) == Len(q1) <= Len(q2) /\ SubSeq(q2, 1, Len(q1)) = q1

\* C16: a submission that fails does not end the run: the following jobs are
\* still submitted, the commands submitted and the .jobs entries written so
\* far stay, and the finished run has submitted a command and written an
\* entry for every job, the failed ones included.
C16_FireAndForget ==
    /\ [] ( failed # {} =>
              /\ failed \subseteq 1 .. Len(submitted)
              /\ status \in {"running", "ok"}
              /\ pc = "done" =>
                    /\ Len(submitted) = Len(jobs_arr)
                    /\ KeepsManifest => Len(JobEntries) = Len(jobs_arr) )
    /\ [][ /\ (failed' # failed /\ ind' < Len(jobs_arr)) =>
                 pc' \in {"submit", "write_and_submit"}
           /\ failed # {} =>
                 /\ IsPrefix(submitted, submitted')
                 /\ IsPrefix(manifest, manifest')
                 /\ Len(submitted') = Len(submitted) + 1
         ]_vars

\* the first of three submissions failed, all three were made and entered
C16_Witness ==
    /\ script = "CHPC_dualpol"
    /\ failed = {1}
    /\ Emitted
    /\ Len(jobs_arr) = 3
    /\ Len(submitted) = 3
    /\ Len(JobEntries) = 3

-----------------------------------------------------------------------------

\* C17 (as claimed): no step removes or overwrites a line that is in the
\* .jobs file, be it a line of this run or of an earlier run with the same
\* --jobs_basename.
C17_ManifestAppendOnly ==
    [][ IsPrefix(jobsfile, jobsfile') ]_vars

-----------------------------------------------------------------------------

\* this step appends the line of the scenes at positions ind1 < ind2
AppendsPair == ComparesPair /\ Len(units') = Len(units) + 1

\* C18: the line of a pair reads "secondary primary output", where primary is
\* the scene at the earlier position and secondary the scene at the later one,
\* and the output name is made of the primary's platform/mode/product and
\* level/polarisation tokens, then the primary's start time, then the
\* secondary's; the list-file holds the line as it was built.
C18_PairLineFormat ==
    /\ [][ AppendsPair =>
              LET line == units'[Len(units')]
                  p1   == fileURLs[ind1]
                  p2   == fileURLs[ind2]
              IN  /\ ind1 < ind2
                  /\ Len(line.text) = 3
                  /\ line.text[1] = p2
                  /\ line.text[2] = p1
                  /\ line.text[3].plat = NamePlat(p1)
                  /\ line.text[3].pol = NamePol(p1)
                  /\ line.text[3].date1 = NameStart(p1)
                  /\ line.text[3].date2 = NameStart(p2)
          ]_vars
    /\ [] ( script \in PairScripts =>
              \A i \in DOMAIN listfiles : \A j \in DOMAIN listfiles[i].lines :
                  \E k \in DOMAIN units : listfiles[i].lines[j] = units[k] )

\* scene 1 (S1A) came first, scene 2 (S1B) second: the line names 2, then 1
C18_Witness ==
    /\ script = "CHPC_intcoh"
    /\ fileURLs = << 1, 2 >>
    /\ Len(listfiles) = 1
    /\ listfiles[1].lines[1].text[1] = 2
    /\ listfiles[1].lines[1].text[2] = 1
    /\ listfiles[1].lines[1].text[3].plat = "S1A_IW_SLC"
    /\ listfiles[1].lines[1].text[3].date1 = NameStart(1)
    /\ listfiles[1].lines[1].text[3].date2 = NameStart(2)

-----------------------------------------------------------------------------

\* the pair search is over, no scene is listed twice, and no pair is left
\* out because its output exists
SearchedAll ==
    /\ script \in PairScripts
    /\ pc = "pairs_done"
    /\ \A i \in DOMAIN fileURLs : \A j \in DOMAIN fileURLs :
          i # j => fileURLs[i] # fileURLs[j]
    /\ n_not_reproc = 0

\* the lines whose primary is a and whose secondary is b
LinesOf(a, b) == { k \in DOMAIN units : units[k].pri = a /\ units[k].sec = b }

\* C19: two scenes that match, in whichever of the two orders the catalog
\* lists them, give exactly one pair line, whose primary is the scene listed
\* first and whose secondary is the scene listed second.
C19_OnePairInEitherOrder ==
    SearchedAll =>
        \A i \in DOMAIN fileURLs : \A j \in DOMAIN fileURLs :
            ( /\ i < j
              /\ \/ Matches(fileURLs[i], fileURLs[j])
                 \/ Matches(fileURLs[j], fileURLs[i]) ) =>
                /\ Cardinality(LinesOf(fileURLs[i], fileURLs[j])) = 1
                /\ LinesOf(fileURLs[j], fileURLs[i]) = {}

\* scenes 1 and 2 listed as 2, 1: one line, primary 2, secondary 1
C19_Witness ==
    /\ SearchedAll
    /\ fileURLs = << 2, 1 >>
    /\ Len(units) = 1
    /\ units[1].pri = 2
    /\ units[1].sec = 1

-----------------------------------------------------------------------------

\* the position pairs i < j of the catalog whose scenes match, less those the
\* CHPC script skips because their output exists
MatchingPositions ==
    { p \in (DOMAIN fileURLs) \X (DOMAIN fileURLs) :
        /\ p[1] < p[2]
        /\ Matches(fileURLs[p[1]], fileURLs[p[2]])
        /\ \/ script = "intcoh"
           \/ cmdargs.reprocess_existing
           \/ OutPair(script, fileURLs[p[1]], fileURLs[p[2]]) \notin existing }

\* the place of p among the matching position pairs in lexicographic order
LexRank(p) ==
    1 + Cardinality({ q \in MatchingPositions :
                        q[1] < p[1] \/ (q[1] = p[1] /\ q[2] < p[2]) })

\* C20: when the pair search is over, the pair lines are those of all the
\* matching position pairs (i, j), i < j, one each, in lexicographic order of
\* (i, j); a scene is in as many lines as it has partners.
C20_AllMatchingPairsInLexOrder ==
    (script \in PairScripts /\ pc = "pairs_done") =>
        /\ Len(units) = Cardinality(MatchingPositions)
        /\ \A p \in MatchingPositions :
              /\ units[LexRank(p)].pri = fileURLs[p[1]]
              /\ units[LexRank(p)].sec = fileURLs[p[2]]

\* three scenes of one track: the first is in two lines, as primary; the
\* third in two lines, as secondary
C20_Witness ==
    /\ script = "intcoh"
    /\ pc = "pairs_done"
    /\ fileURLs = BulkCatalog(3)
    /\ Len(units) = 3
    /\ units[1].pri = fileURLs[1] /\ units[1].sec = fileURLs[2]
    /\ units[2].pri = fileURLs[1] /\ units[2].sec = fileURLs[3]
    /\ units[3].pri = fileURLs[2] /\ units[3].sec = fileURLs[3]

-----------------------------------------------------------------------------

\* C21: no job holds more units than the per-job limit of its script
\* (MAX_PAIRS_PER_JOB, MAX_SCENES_PER_JOB, or --scenes_per_job /
\* --pairs_per_job), neither as split nor as written to its list-file.
C21_AtMostMaxUnitsPerJob ==
    /\ \A i \in DOMAIN jobs_arr :
          Len(jobs_arr[i]) <= MaxUnitsPerJob(script, cmdargs)
    /\ \A i \in DOMAIN listfiles :
          Len(listfiles[i].lines) <= MaxUnitsPerJob(script, cmdargs)

\* a dual-pol job filled to the limit of 3 scenes, next to smaller ones
C21_Witness ==
    /\ script = "CHPC_dualpol"
    /\ Emitted
    /\ Len(listfiles) > 1
    /\ \E i \in DOMAIN listfiles : Len(listfiles[i].lines) = MAX_SCENES_PER_JOB

\* C22: for n >= 1 units the job count is at least 1 and at most n, and every
\* job, every list-file and so every submitted command has at least one unit.
C22_NoEmptyJob ==
    /\ (Counted /\ Len(units) >= 1) => (n_jobs >= 1 /\ n_jobs <= Len(units))
    /\ \A i \in DOMAIN jobs_arr : Len(jobs_arr[i]) >= 1
    /\ \A i \in DOMAIN listfiles : Len(listfiles[i].lines) >= 1
    /\ \A i \in DOMAIN submitted :
          /\ submitted[i].list \in DOMAIN listfiles
          /\ Len(listfiles[submitted[i].list].lines) >= 1

\* as many jobs as units: seven jobs of one scene each
C22_Witness ==
    /\ script = "NCI_backsc"
    /\ Emitted
    /\ Len(units) = 7
    /\ n_jobs = 7
    /\ Len(submitted) = 7

-----------------------------------------------------------------------------

-----------------------------------------------------------------------------

\* C24 (as claimed): in the CHPC coherence script a run that has skipped
\* pairs whose output exists and kept others ends normally, with the kept
\* pairs split into jobs and listed.
C24_SkippedPairsDoNotEndRun ==
    ( /\ script = "CHPC_intcoh"
      /\ pc = "done"
      /\ n_not_reproc >= 1
      /\ Len(units) >= 1
      /\ \A i \in DOMAIN fileURLs : SceneXml(fileURLs[i]).wellformed ) =>
        /\ status = "ok"
        /\ Partitioned
        /\ Concat([ i \in DOMAIN listfiles |-> listfiles[i].lines ],
                  1, Len(listfiles)) = units

-----------------------------------------------------------------------------

\* C27: the list-file of a job is written, with the units of the job, before
\* the job's command is run; in the scripts that write the lists in a pass of
\* their own, all list-files are there before the first command is run and
\* before the .jobs file is begun.
C27_ListBeforeSubmission ==
    /\ \A i \in DOMAIN submitted :
          \E j \in DOMAIN listfiles :
              /\ listfiles[j].name = submitted[i].list
              /\ listfiles[j].lines = jobs_arr[submitted[i].list]
    /\ (script \in TwoPassScripts /\ (submitted # << >> \/ manifest # << >>)) =>
          Len(listfiles) = Len(jobs_arr)

\* three lists written, the first of three commands run
C27_Witness ==
    /\ script = "NCI_backsc"
    /\ pc = "submit"
    /\ Len(jobs_arr) = 3
    /\ Len(listfiles) = 3
    /\ Len(submitted) = 1

-----------------------------------------------------------------------------

\* C28 (as claimed): two pair lines of one run that differ in their primary
\* or their secondary scene never have the same output path.
C28_DistinctPairsDistinctOutputs ==
    script \in PairScripts =>
        \A i \in DOMAIN units : \A j \in DOMAIN units :
            (units[i].pri # units[j].pri \/ units[i].sec # units[j].sec) =>
                units[i].out # units[j].out

-----------------------------------------------------------------------------

\* a file made by the run is in the filesystem at its end
LeavesNoFile ==
    /\ NothingWritten
    /\ downloaded = {}
    /\ \A i \in DOMAIN xml_files : xml_files[i] = NoFile

\* C30 (as claimed): a run that ends with the job-count ceiling error, with
\* nothing to process, or with an error raised by the pair search leaves no
\* list-file, manifest, job script, downloaded scene archive or temporary
\* descriptor file behind.
C30_FailedRunLeavesNoFile ==
    ( /\ pc = "done"
      /\ \/ status = "exit" /\ err = "Too many jobs for this query."
         \/ NothingToProcess
         \/ script \in PairScripts /\ status = "exception" /\ err = "IndexError" ) =>
        LeavesNoFile

-----------------------------------------------------------------------------

\* the scenes of the query whose output is not there
Unprocessed == { f \in Range(fileURLs) : ~IsFile(OutSingle(f)) }

\* C25: with two instances of a single-scene script at work on one query and
\* one output tree, both without --reprocess_existing, the existence check of
\* each keeps every scene whose output is not there at that moment, whether
\* or not a job of the other instance holds the scene: nothing excludes the
\* one from what the other has submitted.
C25_NoMutualExclusion ==
    [][ /\ (pc = "filter" /\ pc' # "filter") => Unprocessed \subseteq Range(units')
        /\ (peer.pc = "filter" /\ peer'.pc # "filter") =>
              Unprocessed \subseteq Range(peer'.units) ]_vars

\* a scene without output is in an accepted job of each instance
C25_Witness ==
    /\ script \in FilterScripts
    /\ peer.pc = "done"
    /\ pc = "done"
    /\ \E u \in AcceptedUnits \cap PeerUnits : ~IsFile(OutSingle(u))

-----------------------------------------------------------------------------

\* C29 (as claimed): with a second instance of the CHPC coherence script at
\* work in the same working directory, the run never fails for a descriptor
\* file that is not there, compares each scene by its own descriptor, keeps
\* only pairs of scenes that match and misses no pair that matches.
C29_NoDescriptorInterference ==
    script = "CHPC_intcoh" =>
        /\ err # "FileNotFoundError"
        /\ pc = "pair_inner" => xml_ImageDoc = fileURLs[ind1]
        /\ \A k \in DOMAIN units : Matches(units[k].pri, units[k].sec)
        /\ pc = "pairs_done" =>
              \A p \in MatchingPositions :
                  LinesOf(fileURLs[p[1]], fileURLs[p[2]]) # {}

-----------------------------------------------------------------------------

\* the units named in a list-file, and those of a job handed to the scheduler
ListedUnits == UNION { Range(listfiles[i].lines) : i \in DOMAIN listfiles }
SubmittedUnits == UNION { Range(jobs_arr[c.list]) : c \in Range(submitted) }

\* the run before ended normally and the scheduler accepted a job for every
\* unit it kept
SubmittedAll ==
    /\ before.ended = "ok"
    /\ before.kept = before.accepted

\* C26 (as claimed): a second run without --reprocess_existing over the same
\* catalog result, started when the jobs of the first run have written their
\* outputs, writes no list-file and submits nothing.
C26_SecondRunEmitsNothing ==
    (runNo = 2 /\ ~cmdargs.reprocess_existing) =>
        /\ listfiles = << >>
        /\ submitted = << >>

\* C26 (amended): in the scripts with an existence check, a second run
\* without --reprocess_existing over the same catalog result, started when
\* the jobs of the first run have written their outputs, lists and submits no
\* unit of a job the scheduler accepted in the first run; if the first run
\* ended normally with an accepted job for every unit it kept, the second
\* run writes no list-file, manifest or shell script and submits nothing.
C26_NoUnitSubmittedTwice ==
    (runNo = 2 /\ ~cmdargs.reprocess_existing) =>
        /\ ListedUnits \cap before.accepted = {}
        /\ SubmittedUnits \cap before.accepted = {}
        /\ SubmittedAll => NothingWritten

\* the first run had all its units accepted; the second has skipped them
\* all and is over
C26_Witness ==
    /\ runNo = 2
    /\ ~cmdargs.reprocess_existing
    /\ pc = "done"
    /\ SubmittedAll
    /\ before.accepted # {}
    /\ n_not_reproc > 0
    /\ NothingWritten

====
